---- MODULE Spec2Model ----
(***************************************************************************)
(* Model of the feedback classification-and-routing pipeline               *)
(* (FeedbackClassifier in src/src/ai.ts): the rule engine determineRoute,  *)
(* the response parser parseAIResponse, the classifyFeedback invocation    *)
(* around its single LLM call, and generatePMSummary.                      *)
(*                                                                         *)
(* JavaScript values are tagged records (JNum, JStr, JNull, JUndef) so     *)
(* that typeof, truthiness, the relational operators and object spread     *)
(* are computed as the runtime computes them.  Confidence values are kept  *)
(* in tenths (0.3 is 3, 0.9 is 9).                                         *)
(***************************************************************************)
EXTENDS Integers, Sequences, FiniteSets, TLC

VARIABLES
    pc,         \* position of the invocation in flight
    op,         \* which operation is in flight
    feedback,   \* classifyFeedback: the input feedback item's id
    rules,      \* the rule configuration supplied by the caller
    response,   \* what ai.run resolved to (NoResponse before it resolves)
    result,     \* classifyFeedback: what parseAIResponse returned (line 29)
    ret,        \* classifyFeedback: the value the promise resolved to
    events,     \* the calls made so far, in program order
    vec,        \* determineRoute called alone: its classification argument
    route,      \* determineRoute called alone: its return value
    items,      \* generatePMSummary: the feedbackItems argument (their routes)
    summary,    \* generatePMSummary: buckets built and the text returned
    prev,       \* classifyFeedback called twice: the earlier invocation
    kvRules,    \* ConfigStore: the KV entry "classification_rules"
    rulesRet,   \* ConfigStore: what getClassificationRules last returned
    signals,    \* FeedbackDB: the rows of table signals, in insertion order
    sigCall,    \* FeedbackDB: the storeSignals call of each caller
    classifications, \* FeedbackDB: the rows of table classifications
    clsCall,    \* FeedbackDB: the storeClassification call in flight
    clsLast,    \* per feedback id, the argument of the last completed call
    themesPc,   \* extractThemes: position of the invocation
    themesCount, \* extractThemes: the number of feedback items passed
    themesResponse, \* extractThemes: what ai.run resolved to
    themesRet,  \* extractThemes: the value returned
    hpc,        \* handler run: position in scheduled or in POST /api/classify
    pending,    \* handler run: what getUnclassifiedFeedback returned (ids)
    idx,        \* handler run: index of the item the loop is at
    cur,        \* handler run: what classifyFeedback returned for the item
    classified, \* handler run: the counter classified, or results.length
    hcalls,     \* handler run: the calls made and how each ended, in order
    cache,      \* ConfigStore: the ids with a live "classification:<id>" entry
    clock,      \* what Date.now() returns, in milliseconds
    rateKV,     \* ConfigStore: the KV entry "ratelimit:<key>" of one key
    rateCall,   \* ConfigStore: the checkRateLimit call in flight
    rateLog     \* checkRateLimit: the completed calls, in order

\* the state of the classifier's invocations
classifierVars ==
    <<pc, op, feedback, rules, response, result, ret, events, vec, route, items, summary>>

prevVars == <<prev>>

\* the state of the ConfigStore's rules entry
configVars == <<kvRules, rulesRet>>

\* table signals and the storeSignals calls in flight
signalVars == <<signals, sigCall>>

\* table classifications and the storeClassification call in flight
classificationVars == <<classifications, clsCall, clsLast>>

\* the extractThemes invocation
themeVars == <<themesPc, themesCount, themesResponse, themesRet>>

\* a run of a handler, and the classification cache it reads and writes
handlerVars == <<hpc, pending, idx, cur, classified, hcalls, cache>>

\* the rate limiter of one key, and the clock it reads
rateVars == <<clock, rateKV, rateCall, rateLog>>

\* everything the classifier's classifyFeedback, generatePMSummary and
\* determineRoute neither read nor write
restVars ==
    <<prevVars, configVars, signalVars, classificationVars, themeVars, handlerVars,
      rateVars>>

\* everything but the record of the earlier invocation
exceptPrev ==
    <<configVars, signalVars, classificationVars, themeVars, handlerVars, rateVars>>

\* everything the ConfigStore's rules methods neither read nor write
exceptConfig ==
    <<classifierVars, prevVars, signalVars, classificationVars, themeVars, handlerVars,
      rateVars>>

\* everything storeSignals neither reads nor writes
exceptSignals ==
    <<classifierVars, prevVars, configVars, classificationVars, themeVars, handlerVars,
      rateVars>>

\* everything storeClassification neither reads nor writes
exceptClassifications ==
    <<classifierVars, prevVars, configVars, signalVars, themeVars, handlerVars,
      rateVars>>

\* everything extractThemes neither reads nor writes
exceptThemes ==
    <<classifierVars, prevVars, configVars, signalVars, classificationVars, handlerVars,
      rateVars>>

\* everything a handler's loop neither reads nor writes: it calls the store
\* through storeClassification and storeSignals, one call at a time
exceptHandler ==
    <<classifierVars, prevVars, configVars, sigCall, clsCall, clsLast, themeVars,
      rateVars>>

\* everything checkRateLimit neither reads nor writes
exceptRate ==
    <<classifierVars, prevVars, configVars, signalVars, classificationVars, themeVars,
      handlerVars>>

vars == <<classifierVars, restVars>>

(***************************************************************************)
(* JavaScript values                                                       *)
(***************************************************************************)
JNum(n) == [t |-> "number", n |-> n, s |-> ""]

JStr(s) == [t |-> "string", n |-> 0, s |-> s]

JNull == [t |-> "null", n |-> 0, s |-> ""]

\* undefined; as the value of an object key it also stands for an absent key
JUndef == [t |-> "undefined", n |-> 0, s |-> ""]

\* typeof v
TypeOf(v) == IF v.t = "null" THEN "object" ELSE v.t

\* The strings of the model that ToNumber reads as a number; every other
\* string of the model converts to NaN.
NumericStrings == {"5"}

StringToNumber(s) == IF s = "5" THEN 5 ELSE 0

\* ToNumber(v) is NaN
IsNaN(v) ==
    \/ v.t = "undefined"
    \/ v.t = "string" /\ v.s \notin NumericStrings

\* ToNumber(v) when it is not NaN
ToNumber(v) ==
    CASE v.t = "number" -> v.n
      [] v.t = "string" -> StringToNumber(v.s)
      [] OTHER -> 0

\* v >= n and v <= n for a number n: false as soon as ToNumber(v) is NaN
JsGE(v, n) == ~IsNaN(v) /\ ToNumber(v) >= n

JsLE(v, n) == ~IsNaN(v) /\ ToNumber(v) <= n

(***************************************************************************)
(* Ranges of the four axes (schema.sql CHECK constraints)                  *)
(***************************************************************************)
UrgencyLo == 1

UrgencyHi == 5

SentimentLo == -2

SentimentHi == 2

ImpactLo == 1

ImpactHi == 5

ActionabilityLo == 1

ActionabilityHi == 5

(***************************************************************************)
(* Rule configurations (ClassificationRules.routing_rules)                 *)
(***************************************************************************)
Rules(umin, imin, umax, amin, smax, timin) ==
    [immediate_engineering |-> [urgency_min |-> umin, impact_min |-> imin],
     quick_win_backlog |-> [urgency_max |-> umax, actionability_min |-> amin],
     trust_risk |-> [sentiment_max |-> smax, impact_min |-> timin]]

\* defaultRules of getClassificationRules
defaultRules == Rules(4, 4, 2, 4, -1, 3)

\* A configuration under which the fallback vector matches a rule
lowRules == Rules(3, 3, 2, 4, -1, 3)

\* Complete configurations the rule engine is exercised with
RuleConfigs ==
    {Rules(umin, imin, umax, amin, smax, timin) :
        umin \in {2, 4}, imin \in {3, 4}, umax \in {2, 4},
        amin \in {3, 4}, smax \in {-1, 0}, timin \in {2, 3}}

\* Configurations supplied to classifyFeedback
PipelineRules == {defaultRules, lowRules}

NoRules == Rules(0, 0, 0, 0, 0, 0)

(***************************************************************************)
(* determineRoute                                                          *)
(***************************************************************************)
RECURSIVE Join(_, _)
\* Array.prototype.join
Join(arr, sep) ==
    IF Len(arr) = 0 THEN ""
    ELSE IF Len(arr) = 1 THEN arr[1]
    ELSE arr[1] \o sep \o Join(Tail(arr), sep)

MatchesImmediate(c, r) ==
    /\ JsGE(c.urgency, r.immediate_engineering.urgency_min)
    /\ JsGE(c.impact, r.immediate_engineering.impact_min)

\* Variant: the quick-win rule reads impact where it should read
\* actionability
MatchesQuickWinOnImpact(c, r) ==
    /\ JsLE(c.urgency, r.quick_win_backlog.urgency_max)
    /\ JsGE(c.impact, r.quick_win_backlog.actionability_min)

MatchesQuickWin(c, r) ==
    /\ JsLE(c.urgency, r.quick_win_backlog.urgency_max)
    /\ JsGE(c.actionability, r.quick_win_backlog.actionability_min)

MatchesTrustRisk(c, r) ==
    /\ JsLE(c.sentiment, r.trust_risk.sentiment_max)
    /\ JsGE(c.impact, r.trust_risk.impact_min)

\* The routes array after the three pushes
MatchedRoutes(c, r) ==
    (IF MatchesImmediate(c, r) THEN <<"immediate_engineering">> ELSE <<>>)
    \o (IF MatchesQuickWin(c, r) THEN <<"quick_win_backlog">> ELSE <<>>)
    \o (IF MatchesTrustRisk(c, r) THEN <<"trust_risk">> ELSE <<>>)

\* Variant: trust_risk is pushed before quick_win_backlog (the order in
\* which generatePMSummary lists its buckets)
determineRouteTrustFirst(c, r) ==
    LET routes ==
            (IF MatchesImmediate(c, r) THEN <<"immediate_engineering">> ELSE <<>>)
            \o (IF MatchesTrustRisk(c, r) THEN <<"trust_risk">> ELSE <<>>)
            \o (IF MatchesQuickWin(c, r) THEN <<"quick_win_backlog">> ELSE <<>>)
    IN  IF Len(routes) > 0 THEN Join(routes, ",") ELSE "standard_backlog"

\* Variant: the joined array is returned as it is, without the
\* standard_backlog default
determineRouteNoDefault(c, r) == Join(MatchedRoutes(c, r), ",")

\* Variant: standard_backlog is pushed as a label of its own when neither
\* of the first two rules matched, and the array is joined as it is
determineRouteDefaultPushed(c, r) ==
    LET routes ==
            (IF MatchesImmediate(c, r) THEN <<"immediate_engineering">> ELSE <<>>)
            \o (IF MatchesQuickWin(c, r) THEN <<"quick_win_backlog">> ELSE <<>>)
            \o (IF ~MatchesImmediate(c, r) /\ ~MatchesQuickWin(c, r)
                   THEN <<"standard_backlog">> ELSE <<>>)
            \o (IF MatchesTrustRisk(c, r) THEN <<"trust_risk">> ELSE <<>>)
    IN  Join(routes, ",")

determineRoute(c, r) ==
    LET routes == MatchedRoutes(c, r)
    IN  IF Len(routes) > 0 THEN Join(routes, ",") ELSE "standard_backlog"

(***************************************************************************)
(* The response text of the model and the JSON values it can carry         *)
(*                                                                         *)
(* A text is a sequence of tokens: "p" is prose holding no brace, "{" and  *)
(* "}" are lone braces, and "J" is the serialisation of the JSON object    *)
(* `payload` (it starts with "{" and ends with "}").                       *)
(***************************************************************************)
MaxTextLen == 2

MaxSignals == 2

Tokens == {"p", "{", "}", "J"}

Texts == UNION {[1..k -> Tokens] : k \in 0..MaxTextLen}

\* An object of the classification shape; JUndef marks an absent key
ClsObj(fid, u, s, i, a, r, c, why) ==
    [feedback_id |-> fid, urgency |-> u, sentiment |-> s, impact |-> i,
     actionability |-> a, route |-> r, confidence |-> c, reasoning |-> why]

NoKeys == ClsObj(JUndef, JUndef, JUndef, JUndef, JUndef, JUndef, JUndef, JUndef)

\* The value under the "classification" key
ClsAbsent == [t |-> "undefined", o |-> NoKeys]

ClsNull == [t |-> "null", o |-> NoKeys]

ClsString == [t |-> "string", o |-> NoKeys]

ClsObject(o) == [t |-> "object", o |-> o]

\* The four axis values the model may emit: in range, out of range,
\* non-numeric and missing
AxisVectors ==
    {<<JNum(5), JNum(-2), JNum(5), JNum(3)>>,
     <<JNum(1), JNum(0), JNum(1), JNum(5)>>,
     <<JNum(2), JNum(0), JNum(1), JNum(2)>>,
     <<JNum(9), JNum(0), JNum(3), JNum(2)>>,
     <<JNum(3), JNum(-5), JNum(0), JNum(7)>>,
     <<JNum(5), JStr("low"), JUndef, JNum(3)>>,
     <<JUndef, JNum(0), JNum(3), JNum(2)>>,
     <<JNull, JNum(0), JNum(3), JNum(2)>>,
     <<JStr("5"), JNum(-2), JNum(5), JNum(3)>>}

\* Keys the model may add to its classification object
OwnIds == {JUndef, JStr("f9")}

OwnExtras == {<<JUndef, JUndef, JUndef>>, <<JStr("bogus"), JNum(1), JStr("inner")>>}

ClsValues ==
    {ClsAbsent, ClsNull, ClsString}
    \cup {ClsObject(ClsObj(fid, v[1], v[2], v[3], v[4], x[1], x[2], x[3])) :
            fid \in OwnIds, v \in AxisVectors, x \in OwnExtras}

SigObj(fid, ty, val, c) ==
    [feedback_id |-> fid, signal_type |-> ty, signal_value |-> val, confidence |-> c]

SigObjs ==
    {SigObj(JUndef, JStr("feature_area"), JStr("tunnels"), JNum(8)),
     SigObj(JStr("f9"), JStr("user_segment"), JStr("enterprise"), JUndef)}

\* The value under the "signals" key
SigsAbsent == [t |-> "undefined", a |-> <<>>]

SigsNull == [t |-> "null", a |-> <<>>]

SigsString == [t |-> "string", a |-> <<>>]

SigsArray(a) == [t |-> "array", a |-> a]

SigsValues ==
    {SigsAbsent, SigsNull, SigsString}
    \cup {SigsArray(a) : a \in UNION {[1..k -> SigObjs] : k \in 0..MaxSignals}}

TopValues == {<<JNum(9), JStr("text")>>, <<JUndef, JUndef>>}

JsonObj(c, sg, conf, why) ==
    [classification |-> c, signals |-> sg, confidence |-> conf, reasoning |-> why]

\* The object {}
EmptyObj == JsonObj(ClsAbsent, SigsAbsent, JUndef, JUndef)

Payloads ==
    {JsonObj(c, sg, top[1], top[2]) : c \in ClsValues, sg \in SigsValues, top \in TopValues}

HasJ(text) == \E i \in 1..Len(text) : text[i] = "J"

\* What ai.run resolves to: {response: <string>} or an object without a
\* response string.  A text without a "J" token carries no payload.
ResponseString(text, payload) == [t |-> "string", text |-> text, payload |-> payload]

ResponseMissing == [t |-> "undefined", text |-> <<>>, payload |-> EmptyObj]

NoResponse == [t |-> "none", text |-> <<>>, payload |-> EmptyObj]

Responses ==
    {ResponseMissing}
    \cup {ResponseString(text, EmptyObj) : text \in {x \in Texts : ~HasJ(x)}}
    \cup {ResponseString(text, p) : text \in {x \in Texts : HasJ(x)}, p \in Payloads}

(***************************************************************************)
(* parseAIResponse                                                         *)
(***************************************************************************)
Opens(tok) == tok \in {"{", "J"}

Closes(tok) == tok \in {"}", "J"}

\* response.match(/\{[\s\S]*\}/): from the first "{" to the last "}" that
\* follows it; <<>> stands for null (no match)
RegexMatch(text) ==
    LET opens == {i \in 1..Len(text) : Opens(text[i])}
        closes == {i \in 1..Len(text) : Closes(text[i])}
    IN  IF opens = {} THEN <<>>
        ELSE LET first == CHOOSE i \in opens : \A j \in opens : i <= j
                 after == {j \in closes : j > first \/ (j = first /\ text[j] = "J")}
             IN  IF after = {} THEN <<>>
                 ELSE LET last == CHOOSE j \in after : \A k \in after : k <= j
                      IN  SubSeq(text, first, last)

\* JSON.parse accepts the matched substring: one serialised object, or "{}"
JsonParses(m) == m = <<"J">> \/ m = <<"{", "}">>

\* JSON.parse(m) when it does not throw
JsonParse(m, payload) == IF m = <<"J">> THEN payload ELSE EmptyObj

\* !v for the value under the "classification" key (the string is non-empty)
ClsFalsy(c) == c.t \in {"undefined", "null"}

\* parsed.classification.urgency: a property read of a string is undefined
ClsUrgency(c) == IF c.t = "object" THEN c.o.urgency ELSE JUndef

FallbackUrgency == 3

FallbackSentiment == 0

FallbackImpact == 3

FallbackActionability == 2

FallbackConfidence == 3

FallbackReasoning == "Failed to parse AI response, using conservative defaults"

\* Variant: actionability repeats the value of impact
FallbackRepeatedValue ==
    JsonObj(
        ClsObject(ClsObj(JUndef, JNum(FallbackUrgency), JNum(FallbackSentiment),
                         JNum(FallbackImpact), JNum(FallbackImpact),
                         JUndef, JUndef, JUndef)),
        SigsArray(<<>>), JNum(FallbackConfidence), JStr(FallbackReasoning))

\* The object of the catch block
Fallback ==
    JsonObj(
        ClsObject(ClsObj(JUndef, JNum(FallbackUrgency), JNum(FallbackSentiment),
                         JNum(FallbackImpact), JNum(FallbackActionability),
                         JUndef, JUndef, JUndef)),
        SigsArray(<<>>), JNum(FallbackConfidence), JStr(FallbackReasoning))

\* Variant: only the presence of a classification is checked
ValidatesPresenceOnly(parsed) == ~ClsFalsy(parsed.classification)

\* The check of line 131 lets the parsed value through
Validates(parsed) ==
    ~ClsFalsy(parsed.classification)
    /\ TypeOf(ClsUrgency(parsed.classification)) = "number"

\* The try block reaches "return parsed"
ParseAccepts(resp) ==
    /\ resp.t = "string"
    /\ RegexMatch(resp.text) # <<>>
    /\ JsonParses(RegexMatch(resp.text))
    /\ Validates(JsonParse(RegexMatch(resp.text), resp.payload))

parseAIResponse(resp) ==
    IF ParseAccepts(resp)
    THEN JsonParse(RegexMatch(resp.text), resp.payload)
    ELSE Fallback

(***************************************************************************)
(* classifyFeedback: result assembly                                       *)
(***************************************************************************)
FeedbackIds == {"f1", "f2"}

\* A later key of an object literal replaces an earlier one; a spread
\* copies the keys its source has
Over(earlier, later) == IF later.t = "undefined" THEN earlier ELSE later

\* Variant: the spread comes last in the literal, so the keys of the
\* parsed classification replace route, confidence and reasoning
ClassificationLiteralSpreadLast(fid, res, rt) ==
    LET c == res.classification.o
    IN  ClsObj(Over(JStr(fid), c.feedback_id), c.urgency, c.sentiment, c.impact,
               c.actionability, Over(JStr(rt), c.route),
               Over(res.confidence, c.confidence), Over(res.reasoning, c.reasoning))

\* { feedback_id: feedback.id, ...result.classification, route,
\*   confidence: result.confidence, reasoning: result.reasoning }
ClassificationLiteral(fid, res, rt) ==
    LET c == res.classification.o
    IN  ClsObj(Over(JStr(fid), c.feedback_id), c.urgency, c.sentiment, c.impact,
               c.actionability, JStr(rt), res.confidence, res.reasoning)

\* { feedback_id: feedback.id, ...s }
SignalLiteral(fid, sg) ==
    SigObj(Over(JStr(fid), sg.feedback_id), sg.signal_type, sg.signal_value,
           sg.confidence)

\* result.signals.map is not callable: a TypeError outside any try block
SignalsMapThrows(res) == res.signals.t # "array"

\* Variant: the mapped signals are pushed onto an array that lives in the
\* classifier instance, so an invocation returns those of the earlier one too
MapSignalsAccumulating(fid, res) ==
    prev.ret.signals \o
        [i \in 1..Len(res.signals.a) |-> SignalLiteral(fid, res.signals.a[i])]

MapSignals(fid, res) ==
    [i \in 1..Len(res.signals.a) |-> SignalLiteral(fid, res.signals.a[i])]

Returned(fid, res, rt) ==
    [classification |-> ClassificationLiteral(fid, res, rt),
     signals |-> MapSignals(fid, res)]

NoReturn == [classification |-> NoKeys, signals |-> <<>>]

\* const result before line 29 has run
NoResult == EmptyObj

(***************************************************************************)
(* generatePMSummary: the three buckets                                    *)
(***************************************************************************)
MaxItems == 6

BucketCap == 5

\* String.prototype.includes
Includes(str, sub) ==
    \E i \in 1..(Len(str) - Len(sub) + 1) : SubSeq(str, i, i + Len(sub) - 1) = sub

\* f.route?.includes(label), read as a condition
RouteIncludes(r, label) == r.t = "string" /\ Includes(r.s, label)

RECURSIVE FilterFrom(_, _, _)
\* The indices, from i on, of the items whose route includes the label
FilterFrom(its, label, i) ==
    IF i > Len(its) THEN <<>>
    ELSE (IF RouteIncludes(its[i], label) THEN <<i>> ELSE <<>>)
         \o FilterFrom(its, label, i + 1)

\* .slice(0, n)
Slice0(arr, n) == SubSeq(arr, 1, IF Len(arr) < n THEN Len(arr) ELSE n)

\* Variant: the items are cut to the first five before they are filtered
BucketOfFirstFive(its, label) == FilterFrom(Slice0(its, BucketCap), label, 1)

Bucket(its, label) == Slice0(FilterFrom(its, label, 1), BucketCap)

ItemRoutes ==
    {JUndef, JStr("standard_backlog"), JStr("immediate_engineering,trust_risk"),
     JStr("quick_win_backlog")}

ItemLists == UNION {[1..k -> ItemRoutes] : k \in 0..MaxItems}

SummaryResponses == {ResponseMissing, ResponseString(<<"p">>, EmptyObj)}

NoSummary ==
    [immediateEngineering |-> <<>>, trustRisks |-> <<>>, quickWins |-> <<>>,
     text |-> NoResponse]

(***************************************************************************)
(* The invocations                                                         *)
(***************************************************************************)
\* No invocation has been made yet
NoPrev ==
    [n |-> 0, feedback |-> "", rules |-> NoRules, response |-> NoResponse,
     pc |-> "idle", ret |-> NoReturn]

\* kv.get resolves to null: nothing stored under the key, or it has expired
NoKV == [present |-> FALSE, ttl |-> FALSE, keys |-> {}, groups |-> {},
         thresholds |-> NoRules]

\* getClassificationRules has not returned yet
NoRulesRet == [keys |-> {}, groups |-> {}, thresholds |-> NoRules]

\* The callers of the store that may be running at once: a scheduled run
\* and a POST /api/classify request
Callers == {"scheduled", "fetch"}

\* No storeSignals call in flight
NoSigCall == [pc |-> "idle", arg |-> <<>>, ids |-> <<>>, before |-> <<>>]

\* No storeClassification call in flight
NoClsCall == [pc |-> "idle", arg |-> NoKeys]

\* ai.run of extractThemes has not resolved
NoThemesResponse == [t |-> "none", text |-> <<>>]

\* classifyFeedback has not returned for the item the loop is at
NoCur == [classification |-> NoKeys, signals |-> <<>>]

\* kv.get of "ratelimit:<key>" resolves to null: never put, or expired
NoRate == [present |-> FALSE, count |-> 0, reset |-> 0, expires |-> 0]

\* No checkRateLimit call in flight, none made yet
NoRateCall == [pc |-> "idle", maxRequests |-> 0, windowSeconds |-> 0, current |-> NoRate]

RestInit ==
    /\ clock = 0
    /\ rateKV = NoRate
    /\ rateCall = NoRateCall
    /\ rateLog = <<>>
    /\ prev = NoPrev
    /\ kvRules = NoKV
    /\ rulesRet = NoRulesRet
    /\ signals = <<>>
    /\ sigCall = [p \in Callers |-> NoSigCall]
    /\ classifications = <<>>
    /\ clsCall = NoClsCall
    /\ clsLast = [f \in FeedbackIds |-> NoKeys]
    /\ themesPc = "idle"
    /\ themesCount = 0
    /\ themesResponse = NoThemesResponse
    /\ themesRet = <<>>
    /\ hpc = "idle"
    /\ pending = <<>>
    /\ idx = 0
    /\ cur = NoCur
    /\ classified = 0
    /\ hcalls = <<>>
    /\ cache = {}

Init ==
    /\ RestInit
    /\ pc = "idle"
    /\ op = "none"
    /\ feedback = ""
    /\ rules = NoRules
    /\ response = NoResponse
    /\ result = NoResult
    /\ ret = NoReturn
    /\ events = <<>>
    /\ vec = NoKeys
    /\ route = ""
    /\ items = <<>>
    /\ summary = NoSummary

\* classifyFeedback up to its await: the prompt is built and ai.run is called.
\* The prompt text decides nothing that follows, so it is not kept.
classifyFeedback ==
    /\ pc = "idle"
    /\ \E fid \in FeedbackIds, r \in PipelineRules :
        /\ feedback' = fid
        /\ rules' = r
    /\ op' = "classify"
    /\ pc' = "awaiting"
    /\ events' = <<"ai.run">>
    /\ UNCHANGED <<response, result, ret, vec, route, items, summary>>
    /\ UNCHANGED restVars

\* generatePMSummary up to its await: the buckets are built, ai.run is called
generatePMSummary ==
    /\ pc = "idle"
    /\ \E its \in ItemLists :
        /\ items' = its
        /\ summary' = [immediateEngineering |-> Bucket(its, "immediate_engineering"),
                       trustRisks |-> Bucket(its, "trust_risk"),
                       quickWins |-> Bucket(its, "quick_win_backlog"),
                       text |-> NoResponse]
    /\ op' = "summary"
    /\ pc' = "awaiting"
    /\ events' = <<"ai.run">>
    /\ UNCHANGED <<feedback, rules, response, result, ret, vec, route>>
    /\ UNCHANGED restVars

\* ai.run resolves
AiResolve ==
    /\ pc = "awaiting"
    /\ \E resp \in (IF op = "classify" THEN Responses ELSE SummaryResponses) :
        response' = resp
    /\ pc' = "resumed"
    /\ events' = Append(events, "resolved")
    /\ UNCHANGED <<op, feedback, rules, result, ret, vec, route, items, summary>>
    /\ UNCHANGED restVars

\* Variant: classifyFeedback catches the rejection and returns the
\* conservative default
AiRejectFallsBack ==
    /\ pc = "awaiting"
    /\ IF op = "classify"
       THEN /\ pc' = "returned"
            /\ result' = Fallback
            /\ ret' = Returned(feedback, Fallback,
                                determineRoute(Fallback.classification.o, rules))
            /\ events' = events \o <<"rejected", "determineRoute", "return">>
       ELSE /\ pc' = "threw"
            /\ events' = events \o <<"rejected", "throw">>
            /\ UNCHANGED <<result, ret>>
    /\ UNCHANGED <<op, feedback, rules, response, vec, route, items, summary>>
    /\ UNCHANGED restVars

\* ai.run rejects (transport failure, timeout, cancellation): the await
\* rethrows and no handler of the method catches it
AiReject ==
    /\ pc = "awaiting"
    /\ pc' = "threw"
    /\ events' = events \o <<"rejected", "throw">>
    /\ UNCHANGED <<op, feedback, rules, response, result, ret, vec, route, items, summary>>
    /\ UNCHANGED restVars

\* Variant: a response that does not parse is asked for once more
classifyFeedbackResumeRetries ==
    /\ pc = "resumed"
    /\ op = "classify"
    /\ LET parsed == parseAIResponse(response)
           rt == determineRoute(parsed.classification.o, rules)
           calls == Cardinality({i \in DOMAIN events : events[i] = "ai.run"})
       IN  IF ~ParseAccepts(response) /\ calls < 2
           THEN /\ pc' = "awaiting"
                /\ events' = events \o <<"parseAIResponse", "ai.run">>
                /\ UNCHANGED <<result, ret>>
           ELSE /\ result' = parsed
                /\ IF SignalsMapThrows(parsed)
                   THEN /\ pc' = "threw"
                        /\ ret' = ret
                        /\ events' = events \o <<"parseAIResponse", "determineRoute", "throw">>
                   ELSE /\ pc' = "returned"
                        /\ ret' = Returned(feedback, parsed, rt)
                        /\ events' = events \o <<"parseAIResponse", "determineRoute", "return">>
    /\ UNCHANGED <<op, feedback, rules, response, vec, route, items, summary>>
    /\ UNCHANGED restVars

\* classifyFeedback after its await (lines 29-46)
classifyFeedbackResume ==
    /\ pc = "resumed"
    /\ op = "classify"
    /\ LET parsed == parseAIResponse(response)
           rt == determineRoute(parsed.classification.o, rules)
       IN  /\ result' = parsed
           /\ IF SignalsMapThrows(parsed)
              THEN /\ pc' = "threw"
                   /\ ret' = ret
                   /\ events' = events \o <<"parseAIResponse", "determineRoute", "throw">>
              ELSE /\ pc' = "returned"
                   /\ ret' = Returned(feedback, parsed, rt)
                   /\ events' = events \o <<"parseAIResponse", "determineRoute", "return">>
    /\ UNCHANGED <<op, feedback, rules, response, vec, route, items, summary>>
    /\ UNCHANGED restVars

\* generatePMSummary after its await (line 262)
generatePMSummaryResume ==
    /\ pc = "resumed"
    /\ op = "summary"
    /\ summary' = [summary EXCEPT !.text = response]
    /\ pc' = "returned"
    /\ events' = Append(events, "return")
    /\ UNCHANGED <<op, feedback, rules, response, result, ret, vec, route, items>>
    /\ UNCHANGED restVars

\* The caller has the outcome; the next invocation starts from scratch
Settle ==
    /\ pc \in {"returned", "threw"}
    /\ pc' = "idle"
    /\ op' = "none"
    /\ feedback' = ""
    /\ rules' = NoRules
    /\ response' = NoResponse
    /\ result' = NoResult
    /\ ret' = NoReturn
    /\ events' = <<>>
    /\ items' = <<>>
    /\ summary' = NoSummary
    /\ UNCHANGED <<vec, route>>
    /\ UNCHANGED restVars

Next ==
    \/ classifyFeedback
    \/ generatePMSummary
    \/ AiResolve
    \/ AiReject
    \/ classifyFeedbackResume
    \/ generatePMSummaryResume
    \/ Settle

Spec == Init /\ [][Next]_vars

(***************************************************************************)
(* determineRoute on its own, over every vector and configuration          *)
(***************************************************************************)
Vectors ==
    {ClsObj(JUndef, JNum(u), JNum(s), JNum(i), JNum(a), JUndef, JUndef, JUndef) :
        u \in UrgencyLo..UrgencyHi, s \in SentimentLo..SentimentHi,
        i \in ImpactLo..ImpactHi, a \in ActionabilityLo..ActionabilityHi}

InitRoute ==
    /\ RestInit
    /\ pc = "called"
    /\ op = "route"
    /\ vec \in Vectors
    /\ rules \in RuleConfigs
    /\ route = ""
    /\ feedback = ""
    /\ response = NoResponse
    /\ result = NoResult
    /\ ret = NoReturn
    /\ events = <<>>
    /\ items = <<>>
    /\ summary = NoSummary

RouteReturn ==
    /\ pc = "called"
    /\ op = "route"
    /\ route' = determineRoute(vec, rules)
    /\ pc' = "returned"
    /\ UNCHANGED <<op, feedback, rules, response, result, ret, events, vec, items, summary>>
    /\ UNCHANGED restVars

NextRoute == RouteReturn

SpecRoute == InitRoute /\ [][NextRoute]_vars

(***************************************************************************)
(* Properties of the rule engine (checked under SpecRoute)                 *)
(***************************************************************************)
RouteReturned == op = "route" /\ pc = "returned"

\* The three predicates, on the integers of the vector
ImmediateHolds ==
    /\ vec.urgency.n >= rules.immediate_engineering.urgency_min
    /\ vec.impact.n >= rules.immediate_engineering.impact_min

QuickWinHolds ==
    /\ vec.urgency.n <= rules.quick_win_backlog.urgency_max
    /\ vec.actionability.n >= rules.quick_win_backlog.actionability_min

TrustRiskHolds ==
    /\ vec.sentiment.n <= rules.trust_risk.sentiment_max
    /\ vec.impact.n >= rules.trust_risk.impact_min

\* The comma-joined labels in the fixed order, written out
OrderedLabels(im, qw, tr) ==
    CASE im /\ qw /\ tr -> "immediate_engineering,quick_win_backlog,trust_risk"
      [] im /\ qw /\ ~tr -> "immediate_engineering,quick_win_backlog"
      [] im /\ ~qw /\ tr -> "immediate_engineering,trust_risk"
      [] im /\ ~qw /\ ~tr -> "immediate_engineering"
      [] ~im /\ qw /\ tr -> "quick_win_backlog,trust_risk"
      [] ~im /\ qw /\ ~tr -> "quick_win_backlog"
      [] ~im /\ ~qw /\ tr -> "trust_risk"
      [] OTHER -> ""

\* C1: for every vector and every complete configuration, determineRoute
\* returns the matched labels comma-joined in the fixed order
\* immediate_engineering, quick_win_backlog, trust_risk; each label is in
\* the result exactly when its own predicate holds.
C1_RouteIsOrderedMatchedLabels ==
    RouteReturned =>
        /\ Includes(route, "immediate_engineering") <=> ImmediateHolds
        /\ Includes(route, "quick_win_backlog") <=> QuickWinHolds
        /\ Includes(route, "trust_risk") <=> TrustRiskHolds
        /\ (ImmediateHolds \/ QuickWinHolds \/ TrustRiskHolds) =>
                route = OrderedLabels(ImmediateHolds, QuickWinHolds, TrustRiskHolds)

\* C1 witness: a vector that matches all three predicates at once
C1_AllThreeLabels ==
    /\ RouteReturned
    /\ ImmediateHolds /\ QuickWinHolds /\ TrustRiskHolds
    /\ route = "immediate_engineering,quick_win_backlog,trust_risk"

\* C2: on every valid vector and complete configuration determineRoute
\* returns (the call always completes) a non-empty string, and that string
\* is exactly "standard_backlog" if and only if no predicate matches.
C2_RouteTotalAndDefault ==
    /\ (op = "route" /\ pc = "called") => ENABLED RouteReturn
    /\ RouteReturned =>
        /\ route # ""
        /\ route = "standard_backlog" <=>
                ~(ImmediateHolds \/ QuickWinHolds \/ TrustRiskHolds)

\* C2 witness: a vector that matches no predicate under the default rules
C2_NoMatchDefault ==
    /\ RouteReturned
    /\ rules = defaultRules
    /\ ~(ImmediateHolds \/ QuickWinHolds \/ TrustRiskHolds)
    /\ route = "standard_backlog"

(***************************************************************************)
(* Properties of classifyFeedback and generatePMSummary (checked under     *)
(* Spec)                                                                   *)
(***************************************************************************)
ClassifyEnded == op = "classify" /\ pc \in {"returned", "threw"}

ClassifyReturned == op = "classify" /\ pc = "returned"

\* The response is a text holding no "{...}" substring, or one that
\* JSON.parse rejects
NoValidJson ==
    /\ response.t = "string"
    /\ \/ RegexMatch(response.text) = <<>>
       \/ ~JsonParses(RegexMatch(response.text))

\* The response is a text whose "{...}" substring parses
JsonFound ==
    /\ response.t = "string"
    /\ RegexMatch(response.text) # <<>>
    /\ JsonParses(RegexMatch(response.text))

\* The object JSON.parse returned, when JsonFound
ParsedOutput == JsonParse(RegexMatch(response.text), response.payload)

\* The parsed output holds a classification object with a numeric urgency
NumericUrgency ==
    /\ ParsedOutput.classification.t = "object"
    /\ ParsedOutput.classification.o.urgency.t = "number"

Count(e) == Cardinality({i \in DOMAIN events : events[i] = e})

IndexOf(e) == CHOOSE i \in DOMAIN events : events[i] = e

\* C3: when the response text holds no valid JSON object, classifyFeedback
\* returns urgency 3, sentiment 0, impact 3, actionability 2, confidence 0.3,
\* no signals, and the route of that vector under the supplied rules, which
\* is "standard_backlog" under the default thresholds.
C3_FallbackOnUnparseableText ==
    (ClassifyEnded /\ NoValidJson) =>
        /\ pc = "returned"
        /\ ret.classification.urgency = JNum(3)
        /\ ret.classification.sentiment = JNum(0)
        /\ ret.classification.impact = JNum(3)
        /\ ret.classification.actionability = JNum(2)
        /\ ret.classification.confidence = JNum(3)
        /\ ret.signals = <<>>
        /\ ret.classification.route =
                JStr(determineRoute(
                        ClsObj(JUndef, JNum(3), JNum(0), JNum(3), JNum(2),
                               JUndef, JUndef, JUndef), rules))
        /\ rules = defaultRules => ret.classification.route = JStr("standard_backlog")

\* C3 witness: the text "{invalid json" under the default rules
C3_InvalidJsonText ==
    /\ ClassifyReturned
    /\ response = ResponseString(<<"{", "p">>, EmptyObj)
    /\ rules = defaultRules
    /\ ret.classification.route = JStr("standard_backlog")

\* C4: once ai.run has resolved, classifyFeedback does not throw, whatever
\* the response holds (a missing, null or non-array signals field included).
C4_NeverThrowsOnResponseContent ==
    (op = "classify" /\ pc = "threw") => response = NoResponse

\* C5: the parsed output is accepted, and returned as parsed, exactly when
\* it holds a classification object whose urgency is a number, whatever the
\* types of the other three axes; every other shape yields the fallback.
C5_AcceptsIffNumericUrgency ==
    (ClassifyEnded /\ JsonFound) =>
        /\ NumericUrgency => result = ParsedOutput
        /\ ~NumericUrgency => result = Fallback

\* C5 witness: an accepted output whose sentiment is a string and whose
\* impact is missing
C5_AcceptedWithNonNumericAxes ==
    /\ ClassifyEnded /\ JsonFound /\ NumericUrgency
    /\ ParsedOutput.classification.o.sentiment.t = "string"
    /\ ParsedOutput.classification.o.impact.t = "undefined"
    /\ result = ParsedOutput

InRange(v, lo, hi) == v.t = "number" /\ lo <= v.n /\ v.n <= hi

\* C6: every returned ClassificationResult has its four values inside their
\* closed ranges.
C6_ReturnedAxesInRange ==
    ClassifyReturned =>
        /\ InRange(ret.classification.urgency, UrgencyLo, UrgencyHi)
        /\ InRange(ret.classification.sentiment, SentimentLo, SentimentHi)
        /\ InRange(ret.classification.impact, ImpactLo, ImpactHi)
        /\ InRange(ret.classification.actionability, ActionabilityLo, ActionabilityHi)

C8_ReturnedRecordsCarryInputId ==
    ClassifyReturned =>
        /\ ret.classification.feedback_id = JStr(feedback)
        /\ \A i \in DOMAIN ret.signals : ret.signals[i].feedback_id = JStr(feedback)
        /\ Len(ret.signals) = Len(result.signals.a)

C10_OneCallOneRouting ==
    op = "classify" =>
        /\ Count("ai.run") = 1
        /\ (pc \in {"returned", "threw"} /\ Count("resolved") = 1) =>
            /\ Count("parseAIResponse") = 1
            /\ Count("determineRoute") = 1
            /\ IndexOf("parseAIResponse") < IndexOf("determineRoute")
        /\ Count("rejected") > 0 =>
            /\ Count("determineRoute") = 0
            /\ Count("parseAIResponse") = 0

\* C10 witness: the fallback path, one call and one routing
C10_FallbackPathOneCall ==
    /\ ClassifyReturned
    /\ result = Fallback
    /\ events = <<"ai.run", "resolved", "parseAIResponse", "determineRoute", "return">>

(***************************************************************************)
(* classifyFeedback called twice on one FeedbackClassifier with the same   *)
(* feedback item and rules, against a stub of ai.run that resolves to the  *)
(* same response both times.  prev keeps what the caller saw of the first  *)
(* invocation; the classifier has no field but ai (ai.ts line 8) and its   *)
(* methods keep their values in locals, so nothing of it reads prev.       *)
(***************************************************************************)
\* The stub's responses: no text, texts without a JSON object, and every
\* payload as the whole text
StubResponses ==
    {ResponseMissing}
        \cup {ResponseString(t, EmptyObj) : t \in {x \in Texts : ~HasJ(x)}}
        \cup {ResponseString(<<"J">>, p) : p \in Payloads}

\* the stubbed ai.run resolves: to any response the first time, to the same
\* response the second time
AiResolveStub ==
    /\ pc = "awaiting"
    /\ op = "classify"
    /\ \E resp \in (IF prev.n = 0 THEN StubResponses ELSE {prev.response}) :
        response' = resp
    /\ pc' = "resumed"
    /\ events' = Append(events, "resolved")
    /\ UNCHANGED <<op, feedback, rules, result, ret, vec, route, items, summary>>
    /\ UNCHANGED restVars

\* The caller keeps the outcome of the invocation; the invocation's locals
\* are gone
SettleKeep ==
    /\ pc \in {"returned", "threw"}
    /\ op = "classify"
    /\ prev.n < 2
    /\ prev' = [n |-> prev.n + 1, feedback |-> feedback, rules |-> rules,
                response |-> response, pc |-> pc, ret |-> ret]
    /\ pc' = "idle"
    /\ op' = "none"
    /\ feedback' = ""
    /\ rules' = NoRules
    /\ response' = NoResponse
    /\ result' = NoResult
    /\ ret' = NoReturn
    /\ events' = <<>>
    /\ UNCHANGED <<vec, route, items, summary>>
    /\ UNCHANGED exceptPrev

\* The first call, with any feedback item and rules
classifyFeedbackFirst ==
    /\ prev.n = 0
    /\ classifyFeedback

\* The second call, with the feedback item and the rules of the first
classifyFeedbackAgain ==
    /\ pc = "idle"
    /\ prev.n = 1
    /\ feedback' = prev.feedback
    /\ rules' = prev.rules
    /\ op' = "classify"
    /\ pc' = "awaiting"
    /\ events' = <<"ai.run">>
    /\ UNCHANGED <<response, result, ret, vec, route, items, summary>>
    /\ UNCHANGED restVars

NextTwice ==
    \/ classifyFeedbackFirst
    \/ classifyFeedbackAgain
    \/ AiResolveStub
    \/ classifyFeedbackResume
    \/ SettleKeep

SpecTwice == Init /\ [][NextTwice]_vars

\* the second invocation has ended
SecondEnded == prev.n = 1 /\ op = "classify" /\ pc \in {"returned", "threw"}

TopKeys == {"routing_rules", "urgency_keywords", "impact_signals"}

GroupNames == {"immediate_engineering", "quick_win_backlog", "trust_risk"}

\* the thresholds of the groups an object holds
Restrict(th, groups) ==
    [immediate_engineering |->
        IF "immediate_engineering" \in groups THEN th.immediate_engineering
        ELSE NoRules.immediate_engineering,
     quick_win_backlog |->
        IF "quick_win_backlog" \in groups THEN th.quick_win_backlog
        ELSE NoRules.quick_win_backlog,
     trust_risk |->
        IF "trust_risk" \in groups THEN th.trust_risk
        ELSE NoRules.trust_risk]

RulesObj(keys, groups, th) ==
    [keys |-> keys,
     groups |-> IF "routing_rules" \in keys THEN groups ELSE {},
     thresholds |-> IF "routing_rules" \in keys THEN Restrict(th, groups)
                    ELSE NoRules]

\* defaultRules of getClassificationRules, all three top-level keys
defaultRulesObj == RulesObj(TopKeys, GroupNames, defaultRules)

\* Bodies of PUT /api/config/rules: objects holding some of the top-level
\* keys; routing_rules, where given, holds some of the three groups
RuleUpdates ==
    {RulesObj(k, g, th) :
        k \in {{}, {"urgency_keywords"}, {"routing_rules"},
               {"routing_rules", "impact_signals"}},
        g \in SUBSET GroupNames,
        th \in PipelineRules}

\* { ...current, ...rules }: a key of rules replaces the key of current whole
SpreadRules(current, upd) ==
    [keys |-> current.keys \cup upd.keys,
     groups |-> IF "routing_rules" \in upd.keys THEN upd.groups ELSE current.groups,
     thresholds |-> IF "routing_rules" \in upd.keys THEN upd.thresholds
                    ELSE current.thresholds]

\* kv.put of an object, with or without expirationTtl
Stored(obj, ttl) ==
    [present |-> TRUE, ttl |-> ttl, keys |-> obj.keys, groups |-> obj.groups,
     thresholds |-> obj.thresholds]

\* kv.get(key, "json") of an entry that is there
Loaded(entry) ==
    [keys |-> entry.keys, groups |-> entry.groups, thresholds |-> entry.thresholds]

\* What getClassificationRules returns in the current state
CurrentRules == IF kvRules.present THEN Loaded(kvRules) ELSE defaultRulesObj

\* getClassificationRules, called by a handler (db.ts lines 307-387)
getClassificationRules ==
    /\ rulesRet' = CurrentRules
    /\ kvRules' = IF kvRules.present THEN kvRules ELSE Stored(defaultRulesObj, TRUE)
    /\ UNCHANGED exceptConfig

\* updateClassificationRules(rules), rules being the body of the PUT
\* request (db.ts lines 390-394, ai.ts lines 487-491)
updateClassificationRules ==
    /\ \E upd \in RuleUpdates :
        kvRules' = Stored(SpreadRules(CurrentRules, upd), FALSE)
    /\ rulesRet' = CurrentRules
    /\ UNCHANGED exceptConfig

\* The entry written with expirationTtl reaches its expiry
KvRulesExpire ==
    /\ kvRules.present
    /\ kvRules.ttl
    /\ kvRules' = NoKV
    /\ UNCHANGED rulesRet
    /\ UNCHANGED exceptConfig

NextConfig ==
    \/ getClassificationRules
    \/ updateClassificationRules
    \/ KvRulesExpire

SpecConfig == Init /\ [][NextConfig]_vars

\* C12: after any sequence of getClassificationRules and
\* updateClassificationRules calls, every configuration that
\* getClassificationRules has returned holds routing_rules with all three
\* threshold groups, so all six threshold fields.
C12_ReturnedRulesComplete ==
    rulesRet # NoRulesRet =>
        /\ "routing_rules" \in rulesRet.keys
        /\ rulesRet.groups = GroupNames

(***************************************************************************)
(* FeedbackDB.storeSignals (src/src/db.ts lines 102-127) over table        *)
(* signals (src/schema.sql lines 33-40).  The table is the sequence of its *)
(* rows in insertion order (ascending autoincrement id).  A call is one    *)
(* DELETE statement per distinct feedback id of its argument and then one  *)
(* batch of INSERTs; each is awaited, so another caller's statement can    *)
(* run between any two of them.  The feedback ids are rows of table        *)
(* feedback, so the foreign key holds.                                     *)
(***************************************************************************)
MaxBatch == 2

\* operand of "x || null"
JsTruthy(v) ==
    CASE v.t = "number" -> v.n # 0
      [] v.t = "string" -> v.s # ""
      [] OTHER -> FALSE

\* x || null, as bound to a statement parameter
OrNull(v) == IF JsTruthy(v) THEN v ELSE JNull

\* Signal objects handed to storeSignals
StoreSignalObjs ==
    {SigObj(JStr(f), JStr("feature_area"), JStr("tunnels"), JNum(8)) : f \in FeedbackIds}
        \cup {SigObj(JStr(f), JStr("user_segment"), JStr("enterprise"), JNum(0)) :
                f \in FeedbackIds}

\* Arguments of storeSignals: arrays of up to MaxBatch signals
SignalBatches ==
    UNION {[1..n -> StoreSignalObjs] : n \in 0..MaxBatch}

\* The row one INSERT of the batch adds (line 124)
SignalRow(sg) ==
    [feedback_id |-> sg.feedback_id.s, signal_type |-> sg.signal_type,
     signal_value |-> sg.signal_value, confidence |-> OrNull(sg.confidence)]

SignalRows(batch) == [i \in 1..Len(batch) |-> SignalRow(batch[i])]

RECURSIVE Unique(_)
\* [...new Set(ids)]: the distinct ids in order of first occurrence
Unique(ids) ==
    IF Len(ids) = 0 THEN <<>>
    ELSE LET rest == Unique(SubSeq(ids, 1, Len(ids) - 1))
             last == ids[Len(ids)]
         IN  IF \E i \in 1..Len(rest) : rest[i] = last THEN rest
             ELSE Append(rest, last)

\* line 106
UniqueIds(batch) == Unique([i \in 1..Len(batch) |-> batch[i].feedback_id.s])

\* Variant: no DELETE runs, the new rows are added to the old ones
DeleteWhereNothing(table, fid) == table

\* DELETE FROM signals WHERE feedback_id = ?
DeleteWhere(table, fid) ==
    LET Keep(row) == row.feedback_id # fid
    IN  SelectSeq(table, Keep)

\* storeSignals is called: an empty argument returns at once (line 103)
storeSignals(p) ==
    /\ sigCall[p].pc = "idle"
    /\ \E batch \in SignalBatches :
        sigCall' = [sigCall EXCEPT ![p] =
                        [pc |-> IF Len(batch) = 0 THEN "done" ELSE "deleting",
                         arg |-> batch,
                         ids |-> UniqueIds(batch),
                         before |-> signals]]
    /\ UNCHANGED signals
    /\ UNCHANGED exceptSignals

\* One turn of the loop of lines 109-114
storeSignalsDelete(p) ==
    /\ sigCall[p].pc = "deleting"
    /\ signals' = DeleteWhere(signals, Head(sigCall[p].ids))
    /\ sigCall' = [sigCall EXCEPT ![p].ids = Tail(@),
                                  ![p].pc = IF Len(sigCall[p].ids) = 1
                                            THEN "inserting" ELSE "deleting"]
    /\ UNCHANGED exceptSignals

\* db.batch of the INSERTs (lines 122-126): one transaction
storeSignalsInsert(p) ==
    /\ sigCall[p].pc = "inserting"
    /\ signals' = signals \o SignalRows(sigCall[p].arg)
    /\ sigCall' = [sigCall EXCEPT ![p].pc = "done"]
    /\ UNCHANGED exceptSignals

\* The statement awaited fails (the database is unreachable or overloaded):
\* the await rethrows, storeSignals has no handler
storeSignalsReject(p) ==
    /\ sigCall[p].pc \in {"deleting", "inserting"}
    /\ sigCall' = [sigCall EXCEPT ![p].pc = "threw"]
    /\ UNCHANGED signals
    /\ UNCHANGED exceptSignals

\* The caller has the outcome
storeSignalsSettle(p) ==
    /\ sigCall[p].pc \in {"done", "threw"}
    /\ sigCall' = [sigCall EXCEPT ![p] = NoSigCall]
    /\ UNCHANGED signals
    /\ UNCHANGED exceptSignals

\* No other caller has a call in flight or an outcome in hand
Alone(p) == \A q \in Callers \ {p} : sigCall[q].pc = "idle"

\* Calls one after another
NextSignals ==
    \E p \in Callers :
        \/ Alone(p) /\ storeSignals(p)
        \/ Alone(p) /\ storeSignalsDelete(p)
        \/ Alone(p) /\ storeSignalsInsert(p)
        \/ Alone(p) /\ storeSignalsReject(p)
        \/ Alone(p) /\ storeSignalsSettle(p)

SpecSignals == Init /\ [][NextSignals]_vars

\* One call of each caller, their statements interleaved in any order
NextSignalsConcurrent ==
    \E p \in Callers :
        \/ storeSignals(p)
        \/ storeSignalsDelete(p)
        \/ storeSignalsInsert(p)
        \/ storeSignalsReject(p)

SpecSignalsConcurrent == Init /\ [][NextSignalsConcurrent]_vars

\* the rows of a table for one feedback id, in table order
RowsOf(table, fid) ==
    LET Is(row) == row.feedback_id = fid
    IN  SelectSeq(table, Is)

\* the feedback ids occurring in an argument of storeSignals
IdsIn(batch) == {batch[i].feedback_id.s : i \in 1..Len(batch)}

C18_ConcurrentStoreReplaces ==
    (\A p \in Callers : sigCall[p].pc = "done") =>
        \A f \in FeedbackIds :
            (\A p \in Callers : f \in IdsIn(sigCall[p].arg)) =>
                \E p \in Callers :
                    RowsOf(signals, f) = RowsOf(SignalRows(sigCall[p].arg), f)

(***************************************************************************)
(* FeedbackDB.storeClassification (src/src/db.ts lines 81-99) over table   *)
(* classifications (src/schema.sql lines 18-30): feedback_id is UNIQUE,    *)
(* the four axes are NOT NULL with a CHECK of their range.  INSERT OR      *)
(* REPLACE resolves a UNIQUE conflict by deleting the row in the way; a    *)
(* CHECK or NOT NULL that fails aborts the statement and leaves the table  *)
(* as it was.  The feedback ids are rows of table feedback.                *)
(***************************************************************************)
\* Classification objects handed to storeClassification: the values
\* classifyFeedback returns, in range or not, with a confidence of 0.9 or 0
StoreClassificationArgs ==
    {ClsObj(JStr(f), v[1], v[2], v[3], v[4], JStr("standard_backlog"), c, JStr("why")) :
        f \in FeedbackIds,
        v \in {<<JNum(5), JNum(-2), JNum(5), JNum(3)>>,
               <<JNum(1), JNum(0), JNum(1), JNum(5)>>,
               <<JNum(9), JNum(0), JNum(3), JNum(2)>>},
        c \in {JNum(9), JNum(0)}}

\* column INTEGER NOT NULL CHECK (column BETWEEN lo AND hi)
ColumnAccepts(v, lo, hi) == v.t = "number" /\ lo <= v.n /\ v.n <= hi

\* the constraints of schema.sql lines 21-24
ConstraintsHold(c) ==
    /\ ColumnAccepts(c.urgency, UrgencyLo, UrgencyHi)
    /\ ColumnAccepts(c.sentiment, SentimentLo, SentimentHi)
    /\ ColumnAccepts(c.impact, ImpactLo, ImpactHi)
    /\ ColumnAccepts(c.actionability, ActionabilityLo, ActionabilityHi)

\* the values bound at lines 89-97
ClassificationRow(c) ==
    [feedback_id |-> c.feedback_id.s, urgency |-> c.urgency,
     sentiment |-> c.sentiment, impact |-> c.impact,
     actionability |-> c.actionability, route |-> OrNull(c.route),
     confidence |-> OrNull(c.confidence), reasoning |-> OrNull(c.reasoning)]

\* INSERT OR REPLACE under UNIQUE (feedback_id)
InsertOrReplace(table, row) ==
    LET Keep(old) == old.feedback_id # row.feedback_id
    IN  Append(SelectSeq(table, Keep), row)

storeClassification ==
    /\ clsCall.pc = "idle"
    /\ \E c \in StoreClassificationArgs :
        clsCall' = [pc |-> "running", arg |-> c]
    /\ UNCHANGED <<classifications, clsLast>>
    /\ UNCHANGED exceptClassifications

\* The statement runs: it replaces the row, or it aborts on a constraint
storeClassificationRun ==
    /\ clsCall.pc = "running"
    /\ IF ConstraintsHold(clsCall.arg)
       THEN /\ classifications' =
                    InsertOrReplace(classifications, ClassificationRow(clsCall.arg))
            /\ clsLast' = [clsLast EXCEPT ![clsCall.arg.feedback_id.s] = clsCall.arg]
            /\ clsCall' = [clsCall EXCEPT !.pc = "done"]
       ELSE /\ clsCall' = [clsCall EXCEPT !.pc = "threw"]
            /\ UNCHANGED <<classifications, clsLast>>
    /\ UNCHANGED exceptClassifications

\* The statement fails for a reason of the database: the await rethrows
storeClassificationReject ==
    /\ clsCall.pc = "running"
    /\ clsCall' = [clsCall EXCEPT !.pc = "threw"]
    /\ UNCHANGED <<classifications, clsLast>>
    /\ UNCHANGED exceptClassifications

storeClassificationSettle ==
    /\ clsCall.pc \in {"done", "threw"}
    /\ clsCall' = NoClsCall
    /\ UNCHANGED <<classifications, clsLast>>
    /\ UNCHANGED exceptClassifications

NextClassifications ==
    \/ storeClassification
    \/ storeClassificationRun
    \/ storeClassificationReject
    \/ storeClassificationSettle

SpecClassifications == Init /\ [][NextClassifications]_vars

\* the rows of table classifications for one feedback id
ClassificationRowsOf(fid) ==
    LET Is(row) == row.feedback_id = fid
    IN  SelectSeq(classifications, Is)

\* C14: in every reachable state of the store there is at most one
\* classification row per feedback id, and once a storeClassification call
\* for an id has completed, the row of that id holds the values of the most
\* recent such call: its four axes, its route, its confidence and its
\* reasoning.
C14_OneRowHoldingLatestCall ==
    \A f \in FeedbackIds :
        /\ Len(ClassificationRowsOf(f)) <= 1
        /\ clsLast[f] # NoKeys =>
            /\ Len(ClassificationRowsOf(f)) = 1
            /\ LET row == ClassificationRowsOf(f)[1]
                   arg == clsLast[f]
               IN  /\ row.urgency = arg.urgency
                   /\ row.sentiment = arg.sentiment
                   /\ row.impact = arg.impact
                   /\ row.actionability = arg.actionability
                   /\ row.route = arg.route
                   /\ row.confidence = arg.confidence
                   /\ row.reasoning = arg.reasoning

(***************************************************************************)
(* extractThemes (src/src/ai.ts lines 266-300).  The text of the response  *)
(* is a sequence of tokens: "p" is prose without brackets, "[" and "]" are *)
(* lone brackets, "A" is a serialised array of strings.  The regular       *)
(* expression /\[[\s\S]*\]/ matches from the first "[" of the text to its  *)
(* last "]"; every "A" begins with one and ends with the other.            *)
(***************************************************************************)
ThemeTokens == {"p", "[", "]", "A"}

ThemeTexts == UNION {[1..n -> ThemeTokens] : n \in 0..MaxTextLen}

\* what JSON.parse gives for the token "A"
ThemeList == <<"billing", "dns">>

\* What ai.run resolves to: an object whose response is a string, an object
\* without response, an object whose response is not a string, or null
ThemesResponses ==
    {[t |-> "string", text |-> x] : x \in ThemeTexts}
        \cup {[t |-> "undefined", text |-> <<>>],
              [t |-> "number", text |-> <<>>],
              [t |-> "null result", text |-> <<>>]}

ThemeOpens(text) == {i \in 1..Len(text) : text[i] \in {"[", "A"}}

ThemeCloses(text) == {i \in 1..Len(text) : text[i] \in {"]", "A"}}

\* response.match(/\[[\s\S]*\]/): the match, or <<>> for null
ThemeMatch(text) ==
    LET o == ThemeOpens(text)
        c == ThemeCloses(text)
    IN  IF o = {} \/ c = {} THEN <<>>
        ELSE LET first == CHOOSE i \in o : \A j \in o : i <= j
                 last == CHOOSE i \in c : \A j \in c : j <= i
             IN  IF first <= last THEN SubSeq(text, first, last) ELSE <<>>

RECURSIVE ThemeParses(_)
\* JSON.parse accepts the match: an array of strings, "[]", or an array
\* whose one element is such an array
ThemeParses(m) ==
    \/ m = <<"A">>
    \/ /\ Len(m) >= 2
       /\ m[1] = "["
       /\ m[Len(m)] = "]"
       /\ Len(m) = 2 \/ ThemeParses(SubSeq(m, 2, Len(m) - 1))

RECURSIVE ThemeParse(_)
\* JSON.parse of a match it accepts
ThemeParse(m) ==
    IF m = <<"A">> THEN ThemeList
    ELSE IF Len(m) = 2 THEN <<>>
    ELSE <<ThemeParse(SubSeq(m, 2, Len(m) - 1))>>

\* lines 290-299: everything between try and catch, then return []
ThemesOutcome(resp) ==
    IF resp.t # "string" THEN <<>>
    ELSE LET m == ThemeMatch(resp.text)
         IN  IF m # <<>> /\ ThemeParses(m) THEN ThemeParse(m) ELSE <<>>

\* extractThemes up to its await; without items it returns [] at once
extractThemes ==
    /\ themesPc = "idle"
    /\ \E n \in 0..MaxItems :
        /\ themesCount' = n
        /\ themesPc' = IF n = 0 THEN "returned" ELSE "awaiting"
    /\ themesRet' = <<>>
    /\ UNCHANGED themesResponse
    /\ UNCHANGED exceptThemes

ThemesAiResolve ==
    /\ themesPc = "awaiting"
    /\ \E resp \in ThemesResponses : themesResponse' = resp
    /\ themesPc' = "resumed"
    /\ UNCHANGED <<themesCount, themesRet>>
    /\ UNCHANGED exceptThemes

\* ai.run rejects: the await is outside the try block
ThemesAiReject ==
    /\ themesPc = "awaiting"
    /\ themesPc' = "threw"
    /\ UNCHANGED <<themesCount, themesResponse, themesRet>>
    /\ UNCHANGED exceptThemes

\* Variant: the match and the parse stand outside the try block
extractThemesResumeUncaught ==
    /\ themesPc = "resumed"
    /\ LET m == ThemeMatch(themesResponse.text)
       IN  IF themesResponse.t # "string" \/ (m # <<>> /\ ~ThemeParses(m))
           THEN /\ themesPc' = "threw"
                /\ UNCHANGED themesRet
           ELSE /\ themesPc' = "returned"
                /\ themesRet' = ThemesOutcome(themesResponse)
    /\ UNCHANGED <<themesCount, themesResponse>>
    /\ UNCHANGED exceptThemes

\* extractThemes after its await (lines 290-299)
extractThemesResume ==
    /\ themesPc = "resumed"
    /\ themesPc' = "returned"
    /\ themesRet' = ThemesOutcome(themesResponse)
    /\ UNCHANGED <<themesCount, themesResponse>>
    /\ UNCHANGED exceptThemes

ThemesSettle ==
    /\ themesPc \in {"returned", "threw"}
    /\ themesPc' = "idle"
    /\ themesCount' = 0
    /\ themesResponse' = NoThemesResponse
    /\ themesRet' = <<>>
    /\ UNCHANGED exceptThemes

NextThemes ==
    \/ extractThemes
    \/ ThemesAiResolve
    \/ ThemesAiReject
    \/ extractThemesResume
    \/ ThemesSettle

SpecThemes == Init /\ [][NextThemes]_vars

\* the LLM call of extractThemes has returned and the invocation has ended
ThemesEndedAfterOutput ==
    themesPc \in {"returned", "threw"} /\ themesResponse # NoThemesResponse

\* the text holds no "[" followed, at that place or later, by a "]"
NoBracketed(text) ==
    ~\E i, j \in 1..Len(text) :
        i <= j /\ text[i] \in {"[", "A"} /\ text[j] \in {"]", "A"}

\* the model output is malformed: no response text, no "[...]" substring,
\* or a substring that is not JSON
MalformedThemes ==
    \/ themesResponse.t # "string"
    \/ NoBracketed(themesResponse.text)
    \/ ~ThemeParses(ThemeMatch(themesResponse.text))

\* C15: once the LLM call has returned, extractThemes never throws because
\* of the model output, and for every malformed output (no response text, no
\* "[...]" substring, an unparseable substring) it returns the empty list.
C15_MalformedThemesGiveEmptyList ==
    ThemesEndedAfterOutput =>
        /\ themesPc = "returned"
        /\ MalformedThemes => themesRet = <<>>

\* extractThemes returned [] for a text whose bracketed substring is not JSON
C15_UnparseableSubstringReturned ==
    /\ themesPc = "returned"
    /\ themesResponse.t = "string"
    /\ ~NoBracketed(themesResponse.text)
    /\ ~ThemeParses(ThemeMatch(themesResponse.text))
    /\ themesRet = <<>>

(***************************************************************************)
(* Properties of generatePMSummary's buckets (checked under Spec)          *)
(***************************************************************************)
\* generatePMSummary has built its buckets
BucketsBuilt == op = "summary" /\ pc # "idle"

\* the routes, among those the items carry, that contain a label
RoutesContaining(label) ==
    CASE label = "immediate_engineering" -> {JStr("immediate_engineering,trust_risk")}
      [] label = "trust_risk" -> {JStr("immediate_engineering,trust_risk")}
      [] label = "quick_win_backlog" -> {JStr("quick_win_backlog")}

\* the positions of the items whose route contains the label
MatchingItems(label) == {i \in 1..Len(items) : items[i] \in RoutesContaining(label)}

\* b lists, in input order, the first BucketCap matching items
FirstMatching(b, label) ==
    /\ Len(b) <= BucketCap
    /\ \A k \in 1..Len(b) : b[k] \in MatchingItems(label)
    /\ \A k \in 1..(Len(b) - 1) : b[k] < b[k + 1]
    /\ \A i \in MatchingItems(label) :
        \/ \E k \in 1..Len(b) : b[k] = i
        \/ Len(b) = BucketCap /\ b[BucketCap] < i

\* C16: each bucket of generatePMSummary holds at most 5 items, namely the
\* first 5 items in input order whose route contains the bucket's label; an
\* item with a multi-label route is in every bucket whose label its route
\* contains, and an item with no route or route standard_backlog is in none.
C16_BucketsFirstFiveMatching ==
    BucketsBuilt =>
        /\ FirstMatching(summary.immediateEngineering, "immediate_engineering")
        /\ FirstMatching(summary.trustRisks, "trust_risk")
        /\ FirstMatching(summary.quickWins, "quick_win_backlog")
        /\ \A i \in 1..Len(items) :
            items[i] \in {JUndef, JStr("standard_backlog")} =>
                \A k \in 1..BucketCap :
                    /\ k <= Len(summary.immediateEngineering) =>
                            summary.immediateEngineering[k] # i
                    /\ k <= Len(summary.trustRisks) => summary.trustRisks[k] # i
                    /\ k <= Len(summary.quickWins) => summary.quickWins[k] # i

\* Six items, the first without a route, the others with the two-label
\* route: both buckets hold the five
C16_UnroutedThenFiveTwoLabel ==
    /\ BucketsBuilt
    /\ Len(items) = 6
    /\ items[1] = JUndef
    /\ summary.immediateEngineering = <<2, 3, 4, 5, 6>>
    /\ summary.trustRisks = <<2, 3, 4, 5, 6>>
    /\ summary.quickWins = <<>>

(***************************************************************************)
(* The documented examples under the default thresholds (SpecRoute)        *)
(***************************************************************************)
VecIs(u, s, i, a) ==
    /\ vec.urgency = JNum(u)
    /\ vec.sentiment = JNum(s)
    /\ vec.impact = JNum(i)
    /\ vec.actionability = JNum(a)

\* C17: the defaults of getClassificationRules are urgency_min 4 and
\* impact_min 4 for immediate_engineering, urgency_max 2 and
\* actionability_min 4 for quick_win_backlog, sentiment_max -1 and
\* impact_min 3 for trust_risk; under them urgency 5, sentiment -2, impact 5,
\* actionability 5 routes to "immediate_engineering,trust_risk", urgency 1,
\* sentiment 0, impact 1, actionability 5 routes to "quick_win_backlog", and
\* urgency 2, sentiment 0, impact 1, actionability 2 routes to
\* "standard_backlog".
C17_DefaultThresholdExamples ==
    /\ defaultRules.immediate_engineering = [urgency_min |-> 4, impact_min |-> 4]
    /\ defaultRules.quick_win_backlog = [urgency_max |-> 2, actionability_min |-> 4]
    /\ defaultRules.trust_risk = [sentiment_max |-> -1, impact_min |-> 3]
    /\ (RouteReturned /\ rules = defaultRules) =>
        /\ VecIs(5, -2, 5, 5) => route = "immediate_engineering,trust_risk"
        /\ VecIs(1, 0, 1, 5) => route = "quick_win_backlog"
        /\ VecIs(2, 0, 1, 2) => route = "standard_backlog"

\* determineRoute has returned for the first example under the defaults
C17_FirstExampleRouted ==
    /\ RouteReturned
    /\ rules = defaultRules
    /\ VecIs(5, -2, 5, 5)
    /\ route = "immediate_engineering,trust_risk"

(***************************************************************************)
(* The two callers of the pipeline (src/src/ai.ts): the scheduled handler  *)
(* (lines 585-613) and POST /api/classify (lines 362-406).  A run is split *)
(* at its awaits.  hcalls lists, in program order, each call made for an   *)
(* item and how it ended.  classifyFeedback is taken by its outcome: it    *)
(* rejects, or it returns a classification, in range or not, with or       *)
(* without signals.  The store calls act on the tables as                  *)
(* storeClassification and storeSignals do when no other caller is active. *)
(***************************************************************************)
MaxPending == 2

PendingIds == {"f1", "f2", "f3"}

\* What getUnclassifiedFeedback returns: distinct feedback rows, at most
\* MaxPending of them
PendingLists ==
    {l \in UNION {[1..n -> PendingIds] : n \in 0..MaxPending} :
        \A i, j \in 1..Len(l) : i # j => l[i] # l[j]}

\* What classifyFeedback may return for an item
ItemClassifications(fid) ==
    {ClsObj(JStr(fid), JNum(1), JNum(0), JNum(1), JNum(5),
            JStr("quick_win_backlog"), JNum(9), JStr("why")),
     ClsObj(JStr(fid), JNum(9), JNum(0), JNum(3), JNum(2),
            JStr("standard_backlog"), JNum(9), JStr("why"))}

ItemSignals(fid) ==
    {<<>>, <<SigObj(JStr(fid), JStr("feature_area"), JStr("tunnels"), JNum(8))>>}

\* A call made for an item, or the way one ended; n is the number of
\* signals classifyFeedback returned
Ev(e, fid, n) == [e |-> e, id |-> fid, n |-> n]

RECURSIVE DeleteEach(_, _)
\* the DELETE statements of storeSignals, one per id
DeleteEach(table, ids) ==
    IF Len(ids) = 0 THEN table
    ELSE DeleteEach(DeleteWhere(table, Head(ids)), Tail(ids))

\* storeSignals run to completion with no other caller in between
StoreSignalsWhole(table, batch) ==
    DeleteEach(table, UniqueIds(batch)) \o SignalRows(batch)

\* the item the loop is at
Item == pending[idx]

\* scheduled, lines 593-596: the rules and the unclassified items are read
scheduled ==
    /\ hpc = "idle"
    /\ \E l \in PendingLists : pending' = l
    /\ idx' = 1
    /\ classified' = 0
    /\ hcalls' = <<>>
    /\ hpc' = "loop"
    /\ UNCHANGED <<cur, cache, classifications, signals>>
    /\ UNCHANGED exceptHandler

\* getClassificationRules or getUnclassifiedFeedback rejects: the handler's
\* promise rejects before the loop
scheduledSetupFails ==
    /\ hpc = "idle"
    /\ hpc' = "rejected"
    /\ UNCHANGED <<pending, idx, cur, classified, hcalls, cache, classifications, signals>>
    /\ UNCHANGED exceptHandler

\* The head of the for loop: the next item is classified, or the run ends
scheduledNext ==
    /\ hpc = "loop"
    /\ IF idx > Len(pending)
       THEN /\ hpc' = "done"
            /\ UNCHANGED hcalls
       ELSE /\ hpc' = "classifying"
            /\ hcalls' = Append(hcalls, Ev("classifyFeedback", Item, 0))
    /\ UNCHANGED <<pending, idx, cur, classified, cache, classifications, signals>>
    /\ UNCHANGED exceptHandler

\* classifyFeedback returns; storeClassification is called (lines 598-602)
scheduledClassified ==
    /\ hpc = "classifying"
    /\ \E c \in ItemClassifications(Item), s \in ItemSignals(Item) :
        /\ cur' = [classification |-> c, signals |-> s]
        /\ hcalls' = hcalls \o <<Ev("classifyFeedback.returned", Item, Len(s)),
                                 Ev("storeClassification", Item, 0)>>
    /\ hpc' = "storing"
    /\ UNCHANGED <<pending, idx, classified, cache, classifications, signals>>
    /\ UNCHANGED exceptHandler

\* Variant: the loop body has no try block, so a rejected classifyFeedback
\* rejects the handler's promise
scheduledClassifyFailsAborts ==
    /\ hpc = "classifying"
    /\ hcalls' = Append(hcalls, Ev("classifyFeedback.threw", Item, 0))
    /\ hpc' = "aborted"
    /\ UNCHANGED <<pending, idx, cur, classified, cache, classifications, signals>>
    /\ UNCHANGED exceptHandler

\* classifyFeedback rejects (the LLM call fails, or the signals of C4): the
\* catch of lines 607-609 logs it and the loop goes on
scheduledClassifyFails ==
    /\ hpc = "classifying"
    /\ hcalls' = Append(hcalls, Ev("classifyFeedback.threw", Item, 0))
    /\ idx' = idx + 1
    /\ cur' = NoCur
    /\ hpc' = "loop"
    /\ UNCHANGED <<pending, classified, cache, classifications, signals>>
    /\ UNCHANGED exceptHandler

\* storeClassification completes; storeSignals is called when there are
\* signals, else the item is counted (lines 602-606)
scheduledStored ==
    /\ hpc = "storing"
    /\ ConstraintsHold(cur.classification)
    /\ classifications' =
            InsertOrReplace(classifications, ClassificationRow(cur.classification))
    /\ IF Len(cur.signals) > 0
       THEN /\ hcalls' = hcalls \o <<Ev("storeClassification.done", Item, 0),
                                     Ev("storeSignals", Item, 0)>>
            /\ hpc' = "storingSignals"
            /\ UNCHANGED <<idx, cur, classified>>
       ELSE /\ hcalls' = Append(hcalls, Ev("storeClassification.done", Item, 0))
            /\ classified' = classified + 1
            /\ idx' = idx + 1
            /\ cur' = NoCur
            /\ hpc' = "loop"
    /\ UNCHANGED <<pending, cache, signals>>
    /\ UNCHANGED exceptHandler

\* storeClassification rejects (a CHECK constraint aborts the statement, or
\* the database fails): caught, the loop goes on
scheduledStoreFails ==
    /\ hpc = "storing"
    /\ hcalls' = Append(hcalls, Ev("storeClassification.threw", Item, 0))
    /\ idx' = idx + 1
    /\ cur' = NoCur
    /\ hpc' = "loop"
    /\ UNCHANGED <<pending, classified, cache, classifications, signals>>
    /\ UNCHANGED exceptHandler

\* storeSignals completes: the item is counted
scheduledSignalsStored ==
    /\ hpc = "storingSignals"
    /\ signals' = StoreSignalsWhole(signals, cur.signals)
    /\ hcalls' = Append(hcalls, Ev("storeSignals.done", Item, 0))
    /\ classified' = classified + 1
    /\ idx' = idx + 1
    /\ cur' = NoCur
    /\ hpc' = "loop"
    /\ UNCHANGED <<pending, cache, classifications>>
    /\ UNCHANGED exceptHandler

\* storeSignals rejects: caught, the loop goes on
scheduledSignalsFail ==
    /\ hpc = "storingSignals"
    /\ hcalls' = Append(hcalls, Ev("storeSignals.threw", Item, 0))
    /\ idx' = idx + 1
    /\ cur' = NoCur
    /\ hpc' = "loop"
    /\ UNCHANGED <<pending, classified, cache, classifications, signals>>
    /\ UNCHANGED exceptHandler

NextScheduled ==
    \/ scheduled
    \/ scheduledSetupFails
    \/ scheduledNext
    \/ scheduledClassified
    \/ scheduledClassifyFails
    \/ scheduledStored
    \/ scheduledStoreFails
    \/ scheduledSignalsStored
    \/ scheduledSignalsFail

\* Every await of the run settles: the LLM call and the statements resolve
\* or reject, so a run that can take a step takes one
SpecScheduled ==
    Init /\ [][NextScheduled]_vars /\ WF_vars(NextScheduled)

\* a call, or an outcome, is on record for an item
Happened(e, fid) == \E k \in 1..Len(hcalls) : hcalls[k].e = e /\ hcalls[k].id = fid

\* classifyFeedback returned signals for the item
SignalsReturned(fid) ==
    \E k \in 1..Len(hcalls) :
        hcalls[k].e = "classifyFeedback.returned" /\ hcalls[k].id = fid /\ hcalls[k].n > 0

\* the classification of the item was stored, and so were its signals when
\* it had any
StoredWithoutError(fid) ==
    /\ Happened("storeClassification.done", fid)
    /\ SignalsReturned(fid) => Happened("storeSignals.done", fid)

\* the ids classifyFeedback was called for, in the order of the calls
Attempted ==
    LET IsAttempt(x) == x.e = "classifyFeedback"
        sel == SelectSeq(hcalls, IsAttempt)
    IN  [k \in 1..Len(sel) |-> sel[k].id]

ScheduledSafe ==
    hpc \notin {"idle", "rejected"} =>
        /\ hpc # "aborted"
        /\ Attempted = SubSeq(pending, 1, Len(Attempted))
        /\ hpc = "done" =>
            /\ Attempted = pending
            /\ classified =
                Cardinality({i \in 1..Len(pending) : StoredWithoutError(pending[i])})

\* C19: in the scheduled handler a failure while classifying or storing one
\* item does not stop the run: the items returned by getUnclassifiedFeedback
\* are attempted in order, each exactly once, the run that has entered its
\* loop always reaches its end, and there the counter classified equals the
\* number of items whose classification and signals were stored without
\* error.
C19_ScheduledRunCountsStored ==
    /\ []ScheduledSafe
    /\ (hpc = "loop") ~> (hpc = "done")

\* A run over two items has ended: the first item failed in the store, the
\* second was stored, and the counter is 1
C19_FailureThenStored ==
    /\ hpc = "done"
    /\ Len(pending) = 2
    /\ Happened("storeClassification.threw", pending[1])
    /\ StoredWithoutError(pending[2])
    /\ classified = 1

(***************************************************************************)
(* POST /api/classify (src/src/ai.ts lines 362-406).  The loop has no try  *)
(* block of its own: a call that rejects is caught by the handler's outer  *)
(* catch (lines 572-581), which answers 500, so the run ends there.  An    *)
(* entry "classification:<id>" may be written by another request at any    *)
(* time, and it expires after its TTL.                                     *)
(***************************************************************************)
\* Another request writes the entry of an id (cacheClassification,
\* db.ts lines 432-440)
CacheWrittenElsewhere ==
    /\ \E f \in PendingIds \ cache : cache' = cache \cup {f}
    /\ UNCHANGED <<hpc, pending, idx, cur, classified, hcalls, classifications, signals>>
    /\ UNCHANGED exceptHandler

\* expirationTtl of an entry runs out
CacheEntryExpires ==
    /\ \E f \in cache : cache' = cache \ {f}
    /\ UNCHANGED <<hpc, pending, idx, cur, classified, hcalls, classifications, signals>>
    /\ UNCHANGED exceptHandler

\* lines 363-373: rules and unclassified items are read; without items the
\* handler answers at once
classifyRequest ==
    /\ hpc = "idle"
    /\ \E l \in PendingLists :
        /\ pending' = l
        /\ hpc' = IF Len(l) = 0 THEN "responded" ELSE "cloop"
    /\ idx' = 1
    /\ classified' = 0
    /\ hcalls' = <<>>
    /\ UNCHANGED <<cur, cache, classifications, signals>>
    /\ UNCHANGED exceptHandler

\* The head of the for loop: the cache is asked for the next item, or the
\* handler answers with the results
classifyNext ==
    /\ hpc = "cloop"
    /\ IF idx > Len(pending)
       THEN /\ hpc' = "responded"
            /\ UNCHANGED hcalls
       ELSE /\ hpc' = "looking"
            /\ hcalls' = Append(hcalls, Ev("getCachedClassification", Item, 0))
    /\ UNCHANGED <<pending, idx, cur, classified, cache, classifications, signals>>
    /\ UNCHANGED exceptHandler

\* getCachedClassification resolves (lines 378-382): on a hit the cached
\* value is pushed and the loop continues, on a miss classifyFeedback is
\* called
classifyLookup ==
    /\ hpc = "looking"
    /\ IF Item \in cache
       THEN /\ hcalls' = Append(hcalls, Ev("cache.hit", Item, 0))
            /\ classified' = classified + 1
            /\ idx' = idx + 1
            /\ hpc' = "cloop"
       ELSE /\ hcalls' = hcalls \o <<Ev("cache.miss", Item, 0),
                                     Ev("classifyFeedback", Item, 0)>>
            /\ hpc' = "cclassifying"
            /\ UNCHANGED <<idx, classified>>
    /\ UNCHANGED <<pending, cur, cache, classifications, signals>>
    /\ UNCHANGED exceptHandler

\* classifyFeedback returns; storeClassification is called (lines 385-391)
classifyClassified ==
    /\ hpc = "cclassifying"
    /\ \E c \in ItemClassifications(Item), s \in ItemSignals(Item) :
        /\ cur' = [classification |-> c, signals |-> s]
        /\ hcalls' = hcalls \o <<Ev("classifyFeedback.returned", Item, Len(s)),
                                 Ev("storeClassification", Item, 0)>>
    /\ hpc' = "cstoring"
    /\ UNCHANGED <<pending, idx, classified, cache, classifications, signals>>
    /\ UNCHANGED exceptHandler

\* Variant: the cache entry is written right after storeClassification,
\* before the signals are stored
classifyStoredCachesFirst ==
    /\ hpc = "cstoring"
    /\ ConstraintsHold(cur.classification)
    /\ classifications' =
            InsertOrReplace(classifications, ClassificationRow(cur.classification))
    /\ hcalls' = hcalls \o <<Ev("storeClassification.done", Item, 0),
                             Ev("cacheClassification", Item, 0)>>
    /\ hpc' = "caching"
    /\ UNCHANGED <<pending, idx, cur, classified, cache, signals>>
    /\ UNCHANGED exceptHandler

\* storeClassification completes (lines 391-397): storeSignals is called
\* when there are signals, else cacheClassification
classifyStored ==
    /\ hpc = "cstoring"
    /\ ConstraintsHold(cur.classification)
    /\ classifications' =
            InsertOrReplace(classifications, ClassificationRow(cur.classification))
    /\ IF Len(cur.signals) > 0
       THEN /\ hcalls' = hcalls \o <<Ev("storeClassification.done", Item, 0),
                                     Ev("storeSignals", Item, 0)>>
            /\ hpc' = "cstoringSignals"
       ELSE /\ hcalls' = hcalls \o <<Ev("storeClassification.done", Item, 0),
                                     Ev("cacheClassification", Item, 0)>>
            /\ hpc' = "caching"
    /\ UNCHANGED <<pending, idx, cur, classified, cache, signals>>
    /\ UNCHANGED exceptHandler

\* storeSignals completes; cacheClassification is called (lines 393-397)
classifySignalsStored ==
    /\ hpc = "cstoringSignals"
    /\ signals' = StoreSignalsWhole(signals, cur.signals)
    /\ hcalls' = hcalls \o <<Ev("storeSignals.done", Item, 0),
                             Ev("cacheClassification", Item, 0)>>
    /\ hpc' = "caching"
    /\ UNCHANGED <<pending, idx, cur, classified, cache, classifications>>
    /\ UNCHANGED exceptHandler

\* cacheClassification completes; the result is pushed (lines 397-399)
classifyCached ==
    /\ hpc = "caching"
    /\ cache' = cache \cup {Item}
    /\ hcalls' = Append(hcalls, Ev("cacheClassification.done", Item, 0))
    /\ classified' = classified + 1
    /\ idx' = idx + 1
    /\ cur' = NoCur
    /\ hpc' = "cloop"
    /\ UNCHANGED <<pending, classifications, signals>>
    /\ UNCHANGED exceptHandler

\* the call the run is waiting for
AwaitedCall ==
    CASE hpc = "looking" -> "getCachedClassification"
      [] hpc = "cclassifying" -> "classifyFeedback"
      [] hpc = "cstoring" -> "storeClassification"
      [] hpc = "cstoringSignals" -> "storeSignals"
      [] hpc = "caching" -> "cacheClassification"

\* The awaited call rejects: the outer catch answers 500
classifyFails ==
    /\ hpc \in {"looking", "cclassifying", "cstoring", "cstoringSignals", "caching"}
    /\ hcalls' = Append(hcalls, Ev(AwaitedCall \o ".threw", Item, 0))
    /\ hpc' = "failed"
    /\ UNCHANGED <<pending, idx, cur, classified, cache, classifications, signals>>
    /\ UNCHANGED exceptHandler

NextClassify ==
    \/ CacheWrittenElsewhere
    \/ CacheEntryExpires
    \/ classifyRequest
    \/ classifyNext
    \/ classifyLookup
    \/ classifyClassified
    \/ classifyStored
    \/ classifySignalsStored
    \/ classifyCached
    \/ classifyFails

SpecClassify == Init /\ [][NextClassify]_vars

\* the places of the record where a call, or an outcome, stands for an item
Places(e, fid) == {k \in 1..Len(hcalls) : hcalls[k].e = e /\ hcalls[k].id = fid}

\* a write of the run for an item, to the store or to the cache
WroteFor(fid) ==
    \/ Happened("storeClassification", fid)
    \/ Happened("storeSignals", fid)
    \/ Happened("cacheClassification", fid)

\* C20: in POST /api/classify the LLM is called for a pending item exactly
\* when the cache lookup for its id found nothing; on a hit the run writes
\* nothing to the store or the cache for the item; on a miss
\* cacheClassification is called only after storeClassification has
\* completed and, when signals were returned, after storeSignals has
\* completed, so the run never writes the cache entry of an id whose store
\* write failed.
C20_CacheWrittenAfterStore ==
    \A f \in PendingIds :
        /\ Happened("classifyFeedback", f) <=> Happened("cache.miss", f)
        /\ Happened("cache.hit", f) =>
            /\ ~WroteFor(f)
            /\ ClassificationRowsOf(f) = <<>>
            /\ RowsOf(signals, f) = <<>>
        /\ \A k \in Places("cacheClassification", f) :
            /\ \E j \in Places("storeClassification.done", f) : j < k
            /\ SignalsReturned(f) =>
                \E j \in Places("storeSignals.done", f) : j < k
        /\ (Happened("storeClassification.threw", f) \/ Happened("storeSignals.threw", f)) =>
            ~Happened("cacheClassification", f)

\* A run answered after a hit on its first item and a miss on its second,
\* whose signals were stored before its cache entry was written
C20_HitThenMissCached ==
    /\ hpc = "responded"
    /\ Len(pending) = 2
    /\ Happened("cache.hit", pending[1])
    /\ Happened("cache.miss", pending[2])
    /\ SignalsReturned(pending[2])
    /\ Happened("cacheClassification.done", pending[2])

(***************************************************************************)
(* ConfigStore.checkRateLimit (db.ts lines 462-492): calls on one key,     *)
(* one after another.  The call is split at its await of kv.get; the       *)
(* clock and the entry's expiry move between the steps.                    *)
(***************************************************************************)
MsPerSecond == 1000

\* the step of the clock between two readings of Date.now()
TickMs == 500

MaxClock == 4000

MaxRequests == 2

MaxWindow == 2

MaxCalls == 5

\* Date.now() advances
Tick ==
    /\ clock + TickMs <= MaxClock
    /\ clock' = clock + TickMs
    /\ UNCHANGED <<rateKV, rateCall, rateLog>>
    /\ UNCHANGED exceptRate

\* the entry put with expirationTtl: windowSeconds is gone once that time
\* has passed
RateEntryExpires ==
    /\ rateKV.present
    /\ clock >= rateKV.expires
    /\ rateKV' = NoRate
    /\ UNCHANGED <<clock, rateCall, rateLog>>
    /\ UNCHANGED exceptRate

\* checkRateLimit(key, maxRequests, windowSeconds) is called and its kv.get
\* resolves (lines 462-470); every call passes the arguments of the first
checkRateLimit ==
    /\ rateCall.pc = "idle"
    /\ Len(rateLog) < MaxCalls
    /\ \E m \in 0..MaxRequests, w \in 1..MaxWindow :
        /\ rateLog # <<>> => (m = rateCall.maxRequests /\ w = rateCall.windowSeconds)
        /\ rateCall' = [pc |-> "got", maxRequests |-> m, windowSeconds |-> w,
                        current |-> rateKV]
    /\ UNCHANGED <<clock, rateKV, rateLog>>
    /\ UNCHANGED exceptRate

\* kv.put(..., JSON.stringify({count, reset}), {expirationTtl: windowSeconds})
RatePut(count, reset, now, windowSeconds) ==
    [present |-> TRUE, count |-> count, reset |-> reset,
     expires |-> now + windowSeconds * MsPerSecond]

\* A mistaken limit test: count > maxRequests
checkRateLimitResumePastLimit ==
    /\ rateCall.pc = "got"
    /\ LET now == clock
           current == rateCall.current
           w == rateCall.windowSeconds
           fresh == ~current.present \/ now > current.reset
           full == ~fresh /\ current.count > rateCall.maxRequests
           after == IF fresh THEN RatePut(1, now + w * MsPerSecond, now, w)
                    ELSE IF full THEN rateKV
                    ELSE RatePut(current.count + 1, current.reset, now, w)
       IN  /\ rateKV' = after
           /\ rateLog' = Append(rateLog, [now |-> now, current |-> current,
                                          returned |-> ~full,
                                          before |-> rateKV, after |-> after])
    /\ rateCall' = [rateCall EXCEPT !.pc = "idle"]
    /\ UNCHANGED clock
    /\ UNCHANGED exceptRate

\* the rest of checkRateLimit, from const now = Date.now() (lines 471-491)
checkRateLimitResume ==
    /\ rateCall.pc = "got"
    /\ LET now == clock
           current == rateCall.current
           w == rateCall.windowSeconds
           \* line 473: !current || now > current.reset
           fresh == ~current.present \/ now > current.reset
           \* line 482: current.count >= maxRequests
           full == ~fresh /\ current.count >= rateCall.maxRequests
           after == IF fresh THEN RatePut(1, now + w * MsPerSecond, now, w)
                    ELSE IF full THEN rateKV
                    ELSE RatePut(current.count + 1, current.reset, now, w)
       IN  /\ rateKV' = after
           /\ rateLog' = Append(rateLog, [now |-> now, current |-> current,
                                          returned |-> ~full,
                                          before |-> rateKV, after |-> after])
    /\ rateCall' = [rateCall EXCEPT !.pc = "idle"]
    /\ UNCHANGED clock
    /\ UNCHANGED exceptRate

NextRateLimit ==
    \/ Tick
    \/ RateEntryExpires
    \/ checkRateLimit
    \/ checkRateLimitResume

SpecRateLimit == Init /\ [][NextRateLimit]_vars

\* The call's reading of the clock is not past the reset time of the record
\* it read
InWindow(i) ==
    /\ rateLog[i].current.present
    /\ rateLog[i].now <= rateLog[i].current.reset

\* The call that opened the window the i-th call falls in
WindowStart(i) ==
    CHOOSE j \in 1..i : ~InWindow(j) /\ \A k \in (j + 1)..i : InWindow(k)

PlaceInWindow(i) == i - WindowStart(i) + 1

\* C21: for calls of checkRateLimit on one key, one after another, with
\* maxRequests >= 1: a call returns true exactly when it is among the first
\* maxRequests calls of its window; the stored count never exceeds
\* maxRequests; a call that returned false left the stored record as it
\* was; and a call that read a record whose reset time has passed returned
\* true and stored a new window with count 1.
C21_RateLimitWindow ==
    rateCall.maxRequests >= 1 =>
        /\ \A i \in 1..Len(rateLog) :
            rateLog[i].returned <=> PlaceInWindow(i) <= rateCall.maxRequests
        /\ rateKV.present => rateKV.count <= rateCall.maxRequests
        /\ \A i \in 1..Len(rateLog) :
            ~rateLog[i].returned => rateLog[i].after = rateLog[i].before
        /\ \A i \in 1..Len(rateLog) :
            (rateLog[i].current.present /\ rateLog[i].now > rateLog[i].current.reset)
                => /\ rateLog[i].returned
                   /\ PlaceInWindow(i) = 1
                   /\ rateLog[i].after.present
                   /\ rateLog[i].after.count = 1
                   /\ rateLog[i].after.reset
                        = rateLog[i].now + rateCall.windowSeconds * MsPerSecond

\* A window of two requests was used up, a third call was rejected, and a
\* later call past the reset time opened a new window
C21_RejectedThenNewWindow ==
    /\ rateCall.maxRequests = 2
    /\ \E i \in 1..Len(rateLog) : \E k \in (i + 1)..Len(rateLog) :
        /\ ~rateLog[i].returned
        /\ PlaceInWindow(i) = 3
        /\ rateLog[k].current.present
        /\ rateLog[k].now > rateLog[k].current.reset
        /\ rateLog[k].returned

(***************************************************************************)
(* The route strings of the rule engine (checked under SpecRoute)          *)
(***************************************************************************)
\* The eight strings, written out
EightRoutes ==
    {"standard_backlog",
     "immediate_engineering",
     "quick_win_backlog",
     "trust_risk",
     "immediate_engineering,quick_win_backlog",
     "immediate_engineering,trust_risk",
     "quick_win_backlog,trust_risk",
     "immediate_engineering,quick_win_backlog,trust_risk"}

RouteLabels ==
    {"immediate_engineering", "quick_win_backlog", "trust_risk", "standard_backlog"}

\* How many times sub occurs in str
Occurrences(str, sub) ==
    Cardinality({i \in 1..(Len(str) - Len(sub) + 1) :
                    SubSeq(str, i, i + Len(sub) - 1) = sub})

\* Each of the eight strings is the route of some vector under some
\* configuration
AllEightProduced ==
    \A s \in EightRoutes :
        \E v \in Vectors, c \in RuleConfigs : determineRoute(v, c) = s

\* C22: every string determineRoute returns is one of eight values,
\* "standard_backlog" or the labels of a non-empty subset of
\* immediate_engineering, quick_win_backlog, trust_risk joined by commas in
\* that order, and each of the eight is returned for some input;
\* "standard_backlog" never comes with another label, no label occurs
\* twice, and under the default thresholds no route holds both
\* immediate_engineering and quick_win_backlog.
C22_RouteIsOneOfEight ==
    /\ Cardinality(EightRoutes) = 8
    /\ AllEightProduced
    /\ RouteReturned =>
        /\ route \in EightRoutes
        /\ Includes(route, "standard_backlog") => route = "standard_backlog"
        /\ \A l \in RouteLabels : Occurrences(route, l) <= 1
        /\ rules = defaultRules =>
                ~(Includes(route, "immediate_engineering")
                    /\ Includes(route, "quick_win_backlog"))

\* determineRoute has returned two labels under the default thresholds
C22_TwoLabelsUnderDefaults ==
    /\ RouteReturned
    /\ rules = defaultRules
    /\ QuickWinHolds /\ TrustRiskHolds
    /\ route = "quick_win_backlog,trust_risk"

====
